---------------------------- MODULE Spec2Model ----------------------------
(***************************************************************************)
(* PageRank (src/pagerank/pagerank.py): transition_model, sample_pagerank, *)
(* iterate_pagerank and get_sum.                                           *)
(*                                                                         *)
(* Numbers.  Python floats are modelled as fixed-point numbers: an integer *)
(* x stands for the real x / SCALE, and "/" is truncating division.        *)
(* SCALE is chosen so that every division of transition_model and of the   *)
(* running average is exact for the corpora and walk lengths explored, so  *)
(* that statements such as "sums to 1" are checked in exact arithmetic;    *)
(* the fixed-point iteration of iterate_pagerank rounds at 1/SCALE.        *)
(*                                                                         *)
(* Pages.  A corpus with k pages has the keys 1..k; the dictionary's       *)
(* iteration order ("for page in corpus") is 1, 2, .., k.  Every link      *)
(* structure over 1..k is explored, so every iteration order of every      *)
(* graph is covered up to renaming.                                        *)
(***************************************************************************)
EXTENDS Integers, FiniteSets, Sequences, TLC

VARIABLES
    fn,               \* which function is being called
    pc,               \* position inside that function
    corpus,           \* argument: page -> set of pages it links to
    damping_factor,   \* argument: [num, den], the damping factor num/den
    n,                \* argument of sample_pagerank
    outcome,          \* "running", "returned", or the exception raised
    result,           \* the returned dictionary
    page,             \* sample_pagerank: current page of the walk
    i,                \* sample_pagerank: loop variable of range(1, n)
    d,                \* sample_pagerank: the accumulator
    current_dist,     \* sample_pagerank: last transition distribution
    weights,          \* sample_pagerank: weights handed to random.choices
    updates,          \* history: number of accumulator updates performed
    sumCur,           \* history: sum of the transition distributions so far
    distribution,     \* iterate_pagerank: the ranks
    old_distribution, \* iterate_pagerank: deepcopy at the start of a sweep
    change,           \* iterate_pagerank: the loop flag
    pos               \* iterate_pagerank: next key of "for page in corpus"

vars == <<fn, pc, corpus, damping_factor, n, outcome, result, page, i, d,
          current_dist, weights, updates, sumCur, distribution,
          old_distribution, change, pos>>

sampleVars == <<page, i, d, current_dist, weights, updates, sumCur>>
iterVars == <<distribution, old_distribution, change, pos>>
argVars == <<fn, corpus, damping_factor, n>>

---------------------------------------------------------------------------
(* Bounds *)
MaxPages == 3
MaxSamples == 4

(* 0.001, the convergence threshold of iterate_pagerank, is 1/ThresholdDen *)
ThresholdDen == 1000

SCALE == ThresholdDen * 720
THRESHOLD == SCALE \div ThresholdDen

(* DAMPING = 0.85 = 17/20, and a second damping factor in (0,1) *)
DAMPING == [num |-> 17, den |-> 20]
Dampings == {DAMPING, [num |-> 1, den |-> 2]}

(* Corpus invariant: keys 1..k, links inside the keys, no self link *)
Corpora ==
    UNION { { c \in [1..k -> SUBSET (1..k)] : \A p \in 1..k : p \notin c[p] }
            : k \in 0..MaxPages }

---------------------------------------------------------------------------
(* Arithmetic *)
Abs(x) == IF x < 0 THEN -x ELSE x

RECURSIVE SumOver(_, _)
SumOver(f, S) ==
    IF S = {} THEN 0
    ELSE LET x == CHOOSE y \in S : TRUE IN f[x] + SumOver(f, S \ {x})

Total(f) == SumOver(f, DOMAIN f)

\* the float damping_factor
DampVal(df) == (SCALE * df.num) \div df.den
\* 1 - damping_factor
OneMinus(df) == SCALE - DampVal(df)
\* damping_factor * x
MulDamp(df, x) == (x * df.num) \div df.den

---------------------------------------------------------------------------
(* transition_model *)
transition_model_uniform_by_pages(c, pg, df) ==
    LET links == c[pg]
        num_pages == Cardinality(DOMAIN c)
        base == [key \in DOMAIN c |-> OneMinus(df) \div num_pages]
    IN  IF links # {}
        THEN [key \in DOMAIN c |->
                 IF key \in links
                 THEN base[key] + DampVal(df) \div num_pages
                 ELSE base[key]]
        ELSE [key \in DOMAIN c |-> SCALE \div num_pages]

transition_model_no_dangling(c, pg, df) ==
    LET links == c[pg]
        num_pages == Cardinality(DOMAIN c)
        num_links == Cardinality(links)
        base == [key \in DOMAIN c |-> OneMinus(df) \div num_pages]
    IN  [key \in DOMAIN c |->
            IF key \in links
            THEN base[key] + DampVal(df) \div num_links
            ELSE base[key]]

transition_model(c, pg, df) ==
    LET links == c[pg]
        num_pages == Cardinality(DOMAIN c)
        num_links == Cardinality(links)
        \* first loop: every key gets (1 - damping_factor) / num_pages
        base == [key \in DOMAIN c |-> OneMinus(df) \div num_pages]
    IN  IF links # {}
        THEN \* second loop: d[key] += damping_factor / num_links
             [key \in DOMAIN c |->
                 IF key \in links
                 THEN base[key] + DampVal(df) \div num_links
                 ELSE base[key]]
        ELSE [key \in DOMAIN c |-> SCALE \div num_pages]

---------------------------------------------------------------------------
(* Initial states: the call of one function with its arguments *)
InitCommon ==
    /\ corpus \in Corpora
    /\ damping_factor \in Dampings
    /\ pc = "start"
    /\ outcome = "running"
    /\ result = <<>>
    /\ page = 0
    /\ i = 0
    /\ d = <<>>
    /\ current_dist = <<>>
    /\ weights = <<>>
    /\ updates = 0
    /\ sumCur = <<>>
    /\ distribution = <<>>
    /\ old_distribution = <<>>
    /\ change = FALSE
    /\ pos = 0

InitTransition == fn = "transition_model" /\ n = 0 /\ InitCommon
InitSample == fn = "sample_pagerank" /\ n \in 1..MaxSamples /\ InitCommon
InitIterate == fn = "iterate_pagerank" /\ n = 0 /\ InitCommon

Init == InitTransition \/ InitSample \/ InitIterate

---------------------------------------------------------------------------
(* A call of transition_model for a page that is a key of the corpus *)
TransitionCall ==
    /\ fn = "transition_model"
    /\ pc = "start"
    /\ \E pg \in DOMAIN corpus :
          /\ page' = pg
          /\ result' = transition_model(corpus, pg, damping_factor)
    /\ pc' = "done"
    /\ outcome' = "returned"
    /\ UNCHANGED <<argVars, i, d, current_dist, weights, updates, sumCur,
                   iterVars>>

NextTransition == TransitionCall
SpecTransition == InitTransition /\ [][NextTransition]_vars

---------------------------------------------------------------------------
(* sample_pagerank *)

\* "for i in range(1, n)": the body runs while the next value is below n
InRangeInclusive(k, stop) == k <= stop
InRange(k, stop) == k < stop

\* d[_page] = (((i - 1) * d[_page]) + current_dist[_page]) / i
RunningAverageNoWeight(k, acc, cur) == (acc + cur) \div k
RunningAverage(k, acc, cur) == ((k - 1) * acc + cur) \div k

\* the pages random.choices(population, weights) can return
Drawable(w) == { p \in DOMAIN w : w[p] > 0 }

\* d = {}.fromkeys(corpus.keys(), 0); page = random.choices(list(corpus.keys()))[0]
SampleStart ==
    /\ fn = "sample_pagerank"
    /\ pc = "start"
    /\ d' = [p \in DOMAIN corpus |-> 0]
    /\ sumCur' = [p \in DOMAIN corpus |-> 0]
    /\ IF DOMAIN corpus = {}
       THEN \* random.choices([]) indexes an empty list
            /\ outcome' = "IndexError"
            /\ pc' = "error"
            /\ UNCHANGED <<page, i>>
       ELSE /\ page' \in DOMAIN corpus
            /\ i' = 1
            /\ pc' = "loop"
            /\ UNCHANGED outcome
    /\ UNCHANGED <<argVars, result, current_dist, weights, updates, iterVars>>

\* one pass through the body of the for loop
SampleStep ==
    /\ fn = "sample_pagerank"
    /\ pc = "loop"
    /\ InRange(i, n)
    /\ LET cur == transition_model(corpus, page, damping_factor)
           acc == [p \in DOMAIN d |-> RunningAverage(i, d[p], cur[p])]
       IN  /\ current_dist' = cur
           /\ d' = acc
           /\ sumCur' = [p \in DOMAIN d |-> sumCur[p] + cur[p]]
           \* random.choices(list(d.keys()), weights=list(d.values()), k=1)[0]
           /\ weights' = acc
           /\ page' \in Drawable(acc)
    /\ updates' = updates + 1
    /\ i' = i + 1
    /\ UNCHANGED <<argVars, pc, outcome, result, iterVars>>

\* the range is exhausted: return d
SampleReturn ==
    /\ fn = "sample_pagerank"
    /\ pc = "loop"
    /\ ~InRange(i, n)
    /\ result' = d
    /\ outcome' = "returned"
    /\ pc' = "done"
    /\ UNCHANGED <<argVars, sampleVars, iterVars>>

NextSample == SampleStart \/ SampleStep \/ SampleReturn
SpecSample == InitSample /\ [][NextSample]_vars

---------------------------------------------------------------------------
(* iterate_pagerank and get_sum *)

\* get_sum(corpus, distribution, page)
get_sum(c, dist, pg) ==
    LET linking == { p \in DOMAIN c : pg \in c[p] }
        share == [p \in linking |-> dist[p] \div Cardinality(c[p])]
    IN  Total(share)

\* change = change or abs(old_distribution[page] - distribution[page]) > 0.001
ChangedLastOnly(ch, old, new) == Abs(old - new) > THRESHOLD
Changed(ch, old, new) == ch \/ Abs(old - new) > THRESHOLD

\* total_pages = len(corpus); distribution = fromkeys(keys, 1.0 / total_pages)
IterStart ==
    /\ fn = "iterate_pagerank"
    /\ pc = "start"
    /\ IF DOMAIN corpus = {}
       THEN \* 1.0 / 0
            /\ outcome' = "ZeroDivisionError"
            /\ pc' = "error"
            /\ UNCHANGED <<distribution, change>>
       ELSE /\ distribution' =
                  [p \in DOMAIN corpus |-> SCALE \div Cardinality(DOMAIN corpus)]
            /\ change' = TRUE
            /\ pc' = "while"
            /\ UNCHANGED outcome
    /\ UNCHANGED <<argVars, result, sampleVars, old_distribution, pos>>

\* "while change:" is true: reset the flag and take the snapshot
IterSweepBegin ==
    /\ fn = "iterate_pagerank"
    /\ pc = "while"
    /\ change
    /\ change' = FALSE
    /\ old_distribution' = distribution
    /\ pos' = 1
    /\ pc' = "for"
    /\ UNCHANGED <<argVars, outcome, result, sampleVars, distribution>>

\* one pass through the body of "for page in corpus"
IterPage ==
    /\ fn = "iterate_pagerank"
    /\ pc = "for"
    /\ LET total_pages == Cardinality(DOMAIN corpus)
           new == (OneMinus(damping_factor) \div total_pages)
                  + MulDamp(damping_factor, get_sum(corpus, distribution, pos))
       IN  /\ distribution' = [distribution EXCEPT ![pos] = new]
           /\ change' = Changed(change, old_distribution[pos], new)
           /\ IF pos < total_pages
              THEN pos' = pos + 1 /\ pc' = "for"
              ELSE pos' = 0 /\ pc' = "while"
    /\ UNCHANGED <<argVars, outcome, result, sampleVars, old_distribution>>

\* "while change:" is false: return distribution
IterReturn ==
    /\ fn = "iterate_pagerank"
    /\ pc = "while"
    /\ ~change
    /\ result' = distribution
    /\ outcome' = "returned"
    /\ pc' = "done"
    /\ UNCHANGED <<argVars, sampleVars, iterVars>>

NextIterate == IterStart \/ IterSweepBegin \/ IterPage \/ IterReturn
SpecIterate == InitIterate /\ [][NextIterate]_vars

\* the interpreter runs the loop to its end: a step that can be taken is taken
FairIterate == SpecIterate /\ WF_vars(NextIterate)

---------------------------------------------------------------------------
Next == NextTransition \/ NextSample \/ NextIterate
Spec == Init /\ [][Next]_vars

---------------------------------------------------------------------------
(* Properties *)

NumPages == Cardinality(DOMAIN corpus)

\* the pages already rewritten in the sweep under way (all of them once the
\* sweep is over)
Rewritten ==
    IF old_distribution = <<>> THEN {}
    ELSE IF pc = "for" THEN 1..(pos - 1)
    ELSE DOMAIN corpus

\* the synchronous update of page p from the snapshot old
JacobiValue(old, p) ==
    (OneMinus(damping_factor) \div NumPages)
    + MulDamp(damping_factor, get_sum(corpus, old, p))

\* C1: every value written in a sweep of iterate_pagerank equals
\* (1-damping)/N + damping * sum of old[q]/|links(q)| over the pages q linking
\* to p, where old is the snapshot taken at the start of the sweep.
C1_SynchronousSweep ==
    fn = "iterate_pagerank" =>
        \A p \in Rewritten : distribution[p] = JacobiValue(old_distribution, p)

\* C2: at every step of the walk of sample_pagerank the weights of the draw
\* are the transition distribution just computed for the current page.
C2_DrawFromCurrentDist ==
    (fn = "sample_pagerank" /\ updates >= 1) => weights = current_dist

\* C3: for every non-empty corpus the values returned by iterate_pagerank sum
\* to 1 within 0.001.
C3_IterateSumsToOne ==
    (fn = "iterate_pagerank" /\ outcome = "returned") =>
        Abs(Total(result) - SCALE) <= THRESHOLD

\* C4: for the single-page corpus iterate_pagerank returns the value 1.0 for
\* that page.
C4_SinglePageIsOne ==
    (fn = "iterate_pagerank" /\ outcome = "returned" /\ DOMAIN corpus = {1}) =>
        result[1] = SCALE

\* C5: on an empty corpus sample_pagerank and iterate_pagerank end in a
\* descriptive empty-corpus failure, not in a low-level fault and not in a
\* returned result.
C5_EmptyCorpusFailure ==
    (fn \in {"sample_pagerank", "iterate_pagerank"}
       /\ DOMAIN corpus = {} /\ pc # "start") =>
        outcome = "EmptyCorpusError"

\* C6: the result of transition_model has exactly the keys of the corpus and
\* its values sum to 1.
C6_TransitionIsDistribution ==
    (fn = "transition_model" /\ outcome = "returned") =>
        /\ DOMAIN result = DOMAIN corpus
        /\ Total(result) = SCALE

C6_Witness ==
    /\ fn = "transition_model" /\ outcome = "returned"
    /\ NumPages >= 3
    /\ Cardinality(corpus[page]) = 1

\* C7: transition_model agrees with the reference definition: with outgoing
\* links a linked page gets (1-damping)/N + damping/|links| and any other
\* page (1-damping)/N; without outgoing links every page gets 1/N.  The
\* equations are stated multiplied out by N * |links|, free of division.
C7_TransitionReference ==
    (fn = "transition_model" /\ outcome = "returned") =>
        LET L == Cardinality(corpus[page])
            N == NumPages
        IN  \A q \in DOMAIN corpus :
               IF L > 0
               THEN IF q \in corpus[page]
                    THEN result[q] * N * L
                           = OneMinus(damping_factor) * L
                             + DampVal(damping_factor) * N
                    ELSE result[q] * N = OneMinus(damping_factor)
               ELSE result[q] * N = SCALE

C7_Witness ==
    /\ fn = "transition_model" /\ outcome = "returned"
    /\ NumPages >= 2
    /\ corpus[page] = {}
    /\ \E q \in DOMAIN corpus : corpus[q] # {}

C9_AccumulatorIsMean ==
    /\ (fn = "sample_pagerank" /\ updates >= 1) =>
          /\ \A p \in DOMAIN d : d[p] * updates = sumCur[p] /\ d[p] > 0
          /\ Total(d) = SCALE
    /\ (fn = "sample_pagerank" /\ outcome = "returned" /\ n >= 2) =>
          Total(result) = SCALE

C9_Witness ==
    /\ fn = "sample_pagerank" /\ outcome = "returned"
    /\ updates >= 3
    /\ NumPages >= 3
    /\ result # current_dist

\* every page moved by at most 0.001 from the snapshot in the last sweep
SweepStable ==
    \A p \in DOMAIN corpus :
        Abs(old_distribution[p] - distribution[p]) <= THRESHOLD

\* C10: for every non-empty corpus the loop of iterate_pagerank eventually
\* exits, and it exits only after a sweep in which every page's value changed
\* by at most 0.001 from the snapshot taken at the start of that sweep.
C10_ConvergenceExit ==
    /\ (fn = "iterate_pagerank" /\ DOMAIN corpus # {}) ~> (pc = "done")
    /\ []((fn = "iterate_pagerank" /\ pc = "done") =>
             (old_distribution # <<>> /\ SweepStable))

C10_Witness ==
    /\ fn = "iterate_pagerank" /\ pc = "done"
    /\ NumPages >= 3
    /\ \A p \in DOMAIN corpus : corpus[p] # {}
    /\ SweepStable
    /\ old_distribution # distribution

=============================================================================
